---- MODULE Spec2Model ----
(***************************************************************************)
(* Model of FCBinding.py (FreeCAD-Ribbon): the ModernMenu ribbon bar, its  *)
(* tab bar, the retry timer and the host signals it is connected to.       *)
(*                                                                         *)
(* Python str values that the code edits (tab titles, workbench MenuText,  *)
(* toolbar names) are sequences of one-character strings; workbench        *)
(* names, which the code only compares, are plain strings.  Tab indices    *)
(* are 1-based, index 0 stands for Python's -1 ("no such tab").            *)
(* Buttons inside a panel are not modelled.                                *)
(***************************************************************************)
EXTENDS Integers, Sequences, FiniteSets, TLC

\* ------------------------------------------------------------------------
\* Bounds
\* ------------------------------------------------------------------------
\* largest number of onWbActivated connections on timer.timeout explored
MaxTimerConn == 4

\* ------------------------------------------------------------------------
\* Python helpers
\* ------------------------------------------------------------------------
Range(s) == {s[i] : i \in 1..Len(s)}

\* number of entries of list s equal to x
Count(s, x) == Cardinality({i \in 1..Len(s) : s[i] = x})

\* str.endswith(suffix)
EndsWith(s, suffix) ==
    /\ Len(s) >= Len(suffix)
    /\ SubSeq(s, Len(s) - Len(suffix) + 1, Len(s)) = suffix

\* str.replace(pat, ""): every non-overlapping occurrence, left to right
RECURSIVE ReplaceAll(_, _)
ReplaceAll(s, pat) ==
    IF Len(s) < Len(pat) \/ Len(pat) = 0 THEN s
    ELSE IF SubSeq(s, 1, Len(pat)) = pat
         THEN ReplaceAll(SubSeq(s, Len(pat) + 1, Len(s)), pat)
         ELSE <<s[1]>> \o ReplaceAll(Tail(s), pat)

\* tabName.replace("&", "")
StripAmp(s) == ReplaceAll(s, <<"&">>)

\* list.remove(x): removes the first occurrence; absent x raises ValueError,
\* which the caller swallows, so the list is returned as it was
RemoveFirst(s, x) ==
    IF x \notin Range(s) THEN s
    ELSE LET i == CHOOSE k \in 1..Len(s) :
                    s[k] = x /\ \A j \in 1..(k - 1) : s[j] # x
         IN SubSeq(s, 1, i - 1) \o SubSeq(s, i + 1, Len(s))

\* list.index(x), 0-based; only used where x occurs
ListIndex(s, x) ==
    (CHOOSE k \in 1..Len(s) : s[k] = x /\ \A j \in 1..(k - 1) : s[j] # x) - 1

\* list.sort(key=...) is stable: each element is inserted before the first
\* element whose key is larger; key is the key function as a TLA+ function
RECURSIVE StableSort(_, _)
StableSort(s, key) ==
    IF Len(s) <= 1 THEN s
    ELSE LET front == StableSort(SubSeq(s, 1, Len(s) - 1), key)
             x == s[Len(s)]
             q == IF \E i \in 1..Len(front) : key[front[i]] > key[x]
                  THEN (CHOOSE i \in 1..Len(front) :
                            key[front[i]] > key[x]
                            /\ \A j \in 1..(i - 1) : key[front[j]] <= key[x]) - 1
                  ELSE Len(front)
         IN SubSeq(front, 1, q) \o <<x>> \o SubSeq(front, q + 1, Len(front))

\* ------------------------------------------------------------------------
\* Host data: workbenches, their toolbars, user parameters
\* ------------------------------------------------------------------------
Custom == <<"_", "c", "u", "s", "t", "o", "m">>

TbFile == <<"F">>
TbEmpty == <<>>
TbClip == <<"C">>
TbView == <<"V">>
TbSolids == <<"S">>
TbDraw == <<"D", "r">>
TbTest == <<"T", "t">>
TbMine == <<"M">>
TbNew == <<"N">> \o Custom
TbTwice == Custom \o <<"W">> \o Custom
TbMid == Custom \o <<"X">>

\* Gui.listWorkbenches()
WbList == {"PartWorkbench", "DraftWorkbench", "AmpWorkbench",
           "TestWorkbench", "NoneWorkbench"}

\* workbenches the host can make active while the ribbon exists
Activatable == WbList \ {"NoneWorkbench"}

\* workbench.MenuText
MenuText(w) ==
    CASE w = "PartWorkbench" -> <<"P", "a">>
      [] w = "DraftWorkbench" -> <<"D">>
      [] w = "AmpWorkbench" -> <<"A", "&", "B">>
      [] w = "TestWorkbench" -> <<"T">>
      [] OTHER -> <<"n">>

\* workbench.listToolbars()
HostToolbars(w) ==
    CASE w = "PartWorkbench" -> <<TbFile, TbEmpty, TbClip, TbView, TbSolids>>
      [] w = "DraftWorkbench" -> <<TbFile, TbDraw, TbMid>>
      [] w = "AmpWorkbench" -> <<TbFile>>
      [] w = "TestWorkbench" -> <<TbTest, TbClip, TbFile, TbTest>>
      [] OTHER -> <<>>

\* User parameter:BaseApp/Workbench/<name>/Toolbar groups, as [Name, WorkBenchName]
ToolbarParamGroups ==
    <<[Name |-> TbMine, WorkBenchName |-> "PartWorkbench"],
      [Name |-> TbClip, WorkBenchName |-> "DraftWorkbench"],
      [Name |-> TbMine, WorkBenchName |-> "NoneWorkbench"],
      [Name |-> TbEmpty, WorkBenchName |-> "TestWorkbench"]>>

\* ------------------------------------------------------------------------
\* RibbonStructure.json
\* ------------------------------------------------------------------------
ignoredWorkbenches == {MenuText("TestWorkbench")}

ignoredToolbars == {TbClip}

\* ribbonStructure["customToolbars"]: per workbench the custom panels in
\* file order, each with its commands as (menu text, original toolbar)
customToolbars ==
    [w \in {"PartWorkbench", "DraftWorkbench"} |->
        IF w = "PartWorkbench"
        THEN <<[panel |-> TbNew,
                commands |-> <<[cmd |-> "Box", toolbar |-> TbSolids],
                               [cmd |-> "Foo", toolbar |-> TbDraw]>>],
               [panel |-> TbTwice, commands |-> <<>>]>>
        ELSE <<[panel |-> TbFile,
                commands |-> <<[cmd |-> "Line", toolbar |-> TbFile]>>]>>]

\* ribbonStructure["workbenches"][w]["toolbars"]["order"]
toolbarsOrder ==
    [w \in {"PartWorkbench", "TestWorkbench"} |->
        IF w = "PartWorkbench"
        THEN <<TbNew, TbView, TbFile>>
        ELSE <<TbFile>>]

\* every toolbar name that can occur
ToolbarNames ==
    {TbFile, TbEmpty, TbClip, TbView, TbSolids, TbDraw, TbTest, TbMine,
     TbNew, TbTwice, TbMid}

\* App.ParamGet(".../Workbenches/").GetString("Ordered").split(",")
OrderedChoices ==
    {<<"PartWorkbench", "DraftWorkbench", "AmpWorkbench", "TestWorkbench">>,
     <<"DraftWorkbench", "", "PartWorkbench", "Unknown">>,
     <<"PartWorkbench", "AmpWorkbench">>}

\* ------------------------------------------------------------------------
\* buildPanels: the list of toolbars and the panels made from it
\* ------------------------------------------------------------------------
\* List_ReturnCustomToolbars: the [Name, WorkBenchName] pairs of every
\* workbench except NoneWorkbench
List_ReturnCustomToolbars ==
    SelectSeq(ToolbarParamGroups,
              LAMBDA g : g.WorkBenchName \in WbList
                         /\ g.WorkBenchName # "NoneWorkbench")

\* the names of a sequence of [Name, WorkBenchName] pairs that belong to w
RECURSIVE NamesFor(_, _)
NamesFor(pairs, w) ==
    IF pairs = <<>> THEN <<>>
    ELSE (IF Head(pairs).WorkBenchName = w THEN <<Head(pairs).Name>> ELSE <<>>)
         \o NamesFor(Tail(pairs), w)

\* the inner loop over the commands of one custom panel: the original
\* toolbar of each command is removed from the list
RECURSIVE RemoveOriginals(_, _)
RemoveOriginals(list, commands) ==
    IF commands = <<>> THEN list
    ELSE RemoveOriginals(RemoveFirst(list, Head(commands).toolbar),
                         Tail(commands))

\* the loop over the custom panels of the workbench: the panel is appended,
\* then the original toolbars of its commands are removed
RECURSIVE AddCustomPanels(_, _)
AddCustomPanels(list, customPanels) ==
    IF customPanels = <<>> THEN list
    ELSE AddCustomPanels(
             RemoveOriginals(Append(list, Head(customPanels).panel),
                             Head(customPanels).commands),
             Tail(customPanels))

\* position used by SortToolbars for a name missing from the order
SortLast == 999999

\* SortToolbars, the sort key of a toolbar under the order list
SortToolbars(order) ==
    [n \in ToolbarNames |->
        IF n = <<>> THEN -1
        ELSE IF n \in Range(order) THEN ListIndex(order, n)
        ELSE SortLast]

\* ListToolbars before sorting: host toolbars, the user's custom toolbars of
\* the workbench, the custom panels; a workbench without custom panels
\* raises KeyError, which is printed and ignored
UnsortedToolbars(workbenchName) ==
    LET host == HostToolbars(workbenchName)
        withUser == host \o NamesFor(List_ReturnCustomToolbars, workbenchName)
    IN IF workbenchName \in DOMAIN customToolbars
       THEN AddCustomPanels(withUser, customToolbars[workbenchName])
       ELSE withUser

\* ListToolbars as the panel loop sees it: sorted by the toolbar order when
\* the workbench has one, left as it is otherwise
ListToolbars(workbenchName) ==
    IF workbenchName \in DOMAIN toolbarsOrder
    THEN StableSort(UnsortedToolbars(workbenchName),
                    SortToolbars(toolbarsOrder[workbenchName]))
    ELSE UnsortedToolbars(workbenchName)

\* variant of PanelToolbars that forgets the test for the empty name
PanelToolbars_KeepEmpty(list) ==
    SelectSeq(list, LAMBDA tb : tb \notin ignoredToolbars)

\* the toolbars that get a panel: not ignored, not empty-named
PanelToolbars(list) ==
    SelectSeq(list, LAMBDA tb : tb \notin ignoredToolbars /\ tb # <<>>)

\* the title a panel ends with: created with the toolbar name, then every
\* "_custom" is removed when the title ends with "_custom"
PanelTitle(toolbar) ==
    IF EndsWith(toolbar, Custom) THEN ReplaceAll(toolbar, Custom) ELSE toolbar

\* the panels one pass of the panel loop adds to the current category
NewPanels(workbenchName) ==
    LET tbs == PanelToolbars(ListToolbars(workbenchName))
    IN [i \in 1..Len(tbs) |-> [toolbar |-> tbs[i], title |-> PanelTitle(tbs[i])]]

\* ------------------------------------------------------------------------
\* The ribbon as a record s, and the methods of ModernMenu as operators
\* from the record before the call to the record after it.
\*   active, loaded        Gui.activeWorkbench(); workbenches with __Workbench__
\*   tabs, cur             tab titles of tabBar() and its currentIndex()
\*   wbNameMapping, isWbLoaded   the two class dictionaries
\*   panels                per tab, the panels of its category
\*   tabConn, wbConn       connections of tabBar().currentChanged to
\*                         onUserChangedWorkbench, of mw.workbenchActivated
\*                         to onWbActivated
\*   timerConn, timerActive connections of timer.timeout to onWbActivated;
\*                         the single-shot timer is running
\*   toolbarsHidden        the classic toolbars are hidden
\*   exc                   a Python exception is propagating
\* History: tabWb (the workbench each tab was created for), builds (per tab,
\* the active workbench at each pass of buildPanels that added panels),
\* nUserChanged, nActivate, nWbActivated (calls of onUserChangedWorkbench,
\* Gui.activateWorkbench, onWbActivated so far in the running handler),
\* nSwitched (tab changes made by updateCurrentTab in the running handler),
\* raised (an exception was raised in the running handler).
\* ------------------------------------------------------------------------
Raise(s) == [s EXCEPT !.exc = TRUE, !.raised = TRUE]

\* a slot called by a signal: an exception leaving it is printed and dropped
SlotReturn(s) == [s EXCEPT !.exc = FALSE]

\* tabBar().tabText(index): "" for an index without tab
TabText(s, index) == IF index \in 1..Len(s.tabs) THEN s.tabs[index] ELSE <<>>

\* tabBar().indexOf(tabName): first tab with exactly that text, else -1 (0 here)
IndexOf(tabs, tabName) ==
    IF \E i \in 1..Len(tabs) : tabs[i] = tabName
    THEN CHOOSE i \in 1..Len(tabs) :
             tabs[i] = tabName /\ \A j \in 1..(i - 1) : tabs[j] # tabName
    ELSE 0

connectSignals(s) ==
    [s EXCEPT !.tabConn = @ + 1, !.wbConn = @ + 1]

\* disconnect removes one connection and raises when there is none
disconnectSignals(s) ==
    IF s.tabConn = 0 THEN Raise(s)
    ELSE IF s.wbConn = 0 THEN Raise([s EXCEPT !.tabConn = @ - 1])
    ELSE [s EXCEPT !.tabConn = @ - 1, !.wbConn = @ - 1]

hideClassicToolbars(s) == [s EXCEPT !.toolbarsHidden = TRUE]

\* variant of buildPanels that forgets to mark the tab as loaded
buildPanels_NoMark(s) ==
    LET workbenchName == s.active
        tabName == StripAmp(TabText(s, s.cur))
    IN IF tabName \notin DOMAIN s.isWbLoaded THEN Raise(s)
       ELSE IF s.isWbLoaded[tabName] THEN s
       ELSE [s EXCEPT !.panels[s.cur] = @ \o NewPanels(workbenchName),
                      !.builds[s.cur] = Append(@, workbenchName)]

buildPanels(s) ==
    LET workbenchName == s.active
        tabName == StripAmp(TabText(s, s.cur))
    IN IF tabName \notin DOMAIN s.isWbLoaded THEN Raise(s)
       ELSE IF s.isWbLoaded[tabName] THEN s
       ELSE [s EXCEPT !.panels[s.cur] = @ \o NewPanels(workbenchName),
                      !.isWbLoaded[tabName] = TRUE,
                      !.builds[s.cur] = Append(@, workbenchName)]

RECURSIVE onUserChangedWorkbench(_)
RECURSIVE onWbActivated(_)
RECURSIVE updateCurrentTab(_)
RECURSIVE setCurrentIndex(_, _)
RECURSIVE activateWorkbench(_, _)
RECURSIVE emitCurrentChanged(_, _)
RECURSIVE emitWorkbenchActivated(_, _)
RECURSIVE emitTimeout(_, _)

\* tabBar().currentChanged: the n slots connected when the emission starts
emitCurrentChanged(s, n) ==
    IF n = 0 THEN s
    ELSE emitCurrentChanged(SlotReturn(onUserChangedWorkbench(s)), n - 1)

\* mw.workbenchActivated, likewise
emitWorkbenchActivated(s, n) ==
    IF n = 0 THEN s
    ELSE emitWorkbenchActivated(SlotReturn(onWbActivated(s)), n - 1)

\* timer.timeout, likewise
emitTimeout(s, n) ==
    IF n = 0 THEN s
    ELSE emitTimeout(SlotReturn(onWbActivated(s)), n - 1)

\* QTabBar.setCurrentIndex: nothing for an invalid or the current index,
\* else the tab changes and currentChanged is emitted
setCurrentIndex(s, index) ==
    IF index \notin 1..Len(s.tabs) \/ index = s.cur THEN s
    ELSE emitCurrentChanged([s EXCEPT !.cur = index], s.tabConn)

\* Gui.activateWorkbench(name): nothing when name is already active, else
\* the host shows the workbench's toolbars and emits workbenchActivated
activateWorkbench(s, name) ==
    IF name = s.active THEN s
    ELSE emitWorkbenchActivated(
             [s EXCEPT !.active = name, !.toolbarsHidden = FALSE], s.wbConn)

\* variant of updateCurrentTab that only ever moves to a later tab
updateCurrentTab_OnlyForward(s) ==
    LET currentWbIndex == IndexOf(s.tabs, MenuText(s.active))
        currentTabIndex == s.cur
    IN IF currentWbIndex > currentTabIndex
       THEN LET s1 == disconnectSignals(s)
            IN IF s1.exc THEN s1
               ELSE LET s2 == setCurrentIndex(s1, currentWbIndex)
                    IN connectSignals(
                           [s2 EXCEPT !.nSwitched =
                                IF s2.cur # s1.cur THEN @ + 1 ELSE @])
       ELSE s

\* variant of updateCurrentTab that changes the tab with the signals connected
updateCurrentTab_Connected(s) ==
    LET currentWbIndex == IndexOf(s.tabs, MenuText(s.active))
        currentTabIndex == s.cur
    IN IF currentWbIndex # currentTabIndex
       THEN LET s2 == setCurrentIndex(s, currentWbIndex)
            IN [s2 EXCEPT !.nSwitched = IF s2.cur # s.cur THEN @ + 1 ELSE @]
       ELSE s

updateCurrentTab(s) ==
    LET currentWbIndex == IndexOf(s.tabs, MenuText(s.active))
        currentTabIndex == s.cur
    IN IF currentWbIndex # currentTabIndex
       THEN LET s1 == disconnectSignals(s)
            IN IF s1.exc THEN s1
               ELSE LET s2 == setCurrentIndex(s1, currentWbIndex)
                    IN connectSignals(
                           [s2 EXCEPT !.nSwitched =
                                IF s2.cur # s1.cur THEN @ + 1 ELSE @])
       ELSE s

onWbActivated(s) ==
    LET s0 == [s EXCEPT !.nWbActivated = @ + 1]
        s1 == updateCurrentTab(s0)
        s2 == hideClassicToolbars(s1)
    IN IF s1.exc THEN s1
       ELSE IF s2.active \notin s2.loaded
            THEN [s2 EXCEPT !.timerConn = @ + 1, !.timerActive = TRUE]
            ELSE buildPanels(s2)

onUserChangedWorkbench(s) ==
    LET s0 == [s EXCEPT !.nUserChanged = @ + 1]
        tabName == StripAmp(TabText(s0, s0.cur))
    IN IF tabName \notin DOMAIN s0.wbNameMapping THEN Raise(s0)
       ELSE onWbActivated(
                activateWorkbench([s0 EXCEPT !.nActivate = @ + 1],
                                  s0.wbNameMapping[tabName]))

\* ------------------------------------------------------------------------
\* Construction
\* ------------------------------------------------------------------------
\* dict[key] = value
DictSet(d, key, value) ==
    [k \in DOMAIN d \cup {key} |-> IF k = key THEN value ELSE d[k]]

\* addCategory(name): a tab and an empty category are added; the first tab
\* added to the tab bar becomes current, which emits currentChanged
addCategory(s, name, workbenchName) ==
    LET s1 == [s EXCEPT !.tabs = Append(@, name),
                        !.tabWb = Append(@, workbenchName),
                        !.panels = Append(@, <<>>),
                        !.builds = Append(@, <<>>)]
    IN IF Len(s.tabs) = 0
       THEN emitCurrentChanged([s1 EXCEPT !.cur = 1], s1.tabConn)
       ELSE s1

\* createModernMenu, the loop over WorkbenchOrderedList: a category for
\* each listed workbench that exists and is not ignored
RECURSIVE createModernMenu(_, _)
createModernMenu(s, WorkbenchOrderedList) ==
    IF WorkbenchOrderedList = <<>> THEN s
    ELSE LET workbenchName == Head(WorkbenchOrderedList)
             name == MenuText(workbenchName)
             skip == \/ workbenchName \notin WbList
                     \/ workbenchName = ""
                     \/ name \in ignoredWorkbenches
             s1 == [s EXCEPT
                      !.wbNameMapping = DictSet(@, name, workbenchName),
                      !.isWbLoaded = DictSet(@, name, FALSE)]
         IN createModernMenu(
                IF skip THEN s ELSE addCategory(s1, name, workbenchName),
                Tail(WorkbenchOrderedList))

\* the ribbon before __init__ runs, in a host whose active workbench is
\* activeWb and whose initialised workbenches are loadedWbs
Blank(activeWb, loadedWbs) ==
    [active |-> activeWb, loaded |-> loadedWbs,
     tabs |-> <<>>, tabWb |-> <<>>, cur |-> 0,
     wbNameMapping |-> <<>>, isWbLoaded |-> <<>>,
     panels |-> <<>>, builds |-> <<>>,
     tabConn |-> 0, wbConn |-> 0,
     timerConn |-> 0, timerActive |-> FALSE,
     toolbarsHidden |-> FALSE, exc |-> FALSE, raised |-> FALSE,
     nUserChanged |-> 0, nActivate |-> 0, nWbActivated |-> 0,
     nSwitched |-> 0]

\* ModernMenu.__init__: connectSignals, createModernMenu, then
\* onUserChangedWorkbench
Construct(activeWb, loadedWbs, WorkbenchOrderedList) ==
    onUserChangedWorkbench(
        createModernMenu(connectSignals(Blank(activeWb, loadedWbs)),
                         WorkbenchOrderedList))

\* ------------------------------------------------------------------------
\* State machine
\* ------------------------------------------------------------------------
VARIABLES active, loaded, tabs, tabWb, cur, wbNameMapping, isWbLoaded,
          panels, builds, tabConn, wbConn, timerConn, timerActive,
          toolbarsHidden, raised, nUserChanged, nActivate, nWbActivated,
          nSwitched, lastHandler

vars == <<active, loaded, tabs, tabWb, cur, wbNameMapping, isWbLoaded,
          panels, builds, tabConn, wbConn, timerConn, timerActive,
          toolbarsHidden, raised, nUserChanged, nActivate, nWbActivated,
          nSwitched, lastHandler>>

\* the current state as a record, at the start of a handler
Start ==
    [active |-> active, loaded |-> loaded,
     tabs |-> tabs, tabWb |-> tabWb, cur |-> cur,
     wbNameMapping |-> wbNameMapping, isWbLoaded |-> isWbLoaded,
     panels |-> panels, builds |-> builds,
     tabConn |-> tabConn, wbConn |-> wbConn,
     timerConn |-> timerConn, timerActive |-> timerActive,
     toolbarsHidden |-> toolbarsHidden, exc |-> FALSE, raised |-> FALSE,
     nUserChanged |-> 0, nActivate |-> 0, nWbActivated |-> 0,
     nSwitched |-> 0]

\* the state a handler leaves
Becomes(r, handler) ==
    /\ active' = r.active
    /\ loaded' = r.loaded
    /\ tabs' = r.tabs
    /\ tabWb' = r.tabWb
    /\ cur' = r.cur
    /\ wbNameMapping' = r.wbNameMapping
    /\ isWbLoaded' = r.isWbLoaded
    /\ panels' = r.panels
    /\ builds' = r.builds
    /\ tabConn' = r.tabConn
    /\ wbConn' = r.wbConn
    /\ timerConn' = r.timerConn
    /\ timerActive' = r.timerActive
    /\ toolbarsHidden' = r.toolbarsHidden
    /\ raised' = r.raised
    /\ nUserChanged' = r.nUserChanged
    /\ nActivate' = r.nActivate
    /\ nWbActivated' = r.nWbActivated
    /\ nSwitched' = r.nSwitched
    /\ lastHandler' = handler

\* the ribbon exists once __init__ has returned without an exception
Init ==
    \E activeWb \in Activatable, loadedWbs \in SUBSET Activatable,
       WorkbenchOrderedList \in OrderedChoices :
        LET r == Construct(activeWb, loadedWbs, WorkbenchOrderedList)
        IN /\ ~r.exc
           /\ active = r.active
           /\ loaded = r.loaded
           /\ tabs = r.tabs
           /\ tabWb = r.tabWb
           /\ cur = r.cur
           /\ wbNameMapping = r.wbNameMapping
           /\ isWbLoaded = r.isWbLoaded
           /\ panels = r.panels
           /\ builds = r.builds
           /\ tabConn = r.tabConn
           /\ wbConn = r.wbConn
           /\ timerConn = r.timerConn
           /\ timerActive = r.timerActive
           /\ toolbarsHidden = r.toolbarsHidden
           /\ raised = r.raised
           /\ nUserChanged = r.nUserChanged
           /\ nActivate = r.nActivate
           /\ nWbActivated = r.nWbActivated
           /\ nSwitched = r.nSwitched
           /\ lastHandler = "init"

\* the host activates another workbench and emits workbenchActivated
HostActivates(w) ==
    /\ w # active
    /\ LET r == activateWorkbench(Start, w)
       IN /\ r.timerConn <= MaxTimerConn
          /\ Becomes(r, "HostActivates")

\* the user selects another tab; the tab bar emits currentChanged
UserSelectsTab(index) ==
    /\ index # cur
    /\ LET r == setCurrentIndex(Start, index)
       IN /\ r.timerConn <= MaxTimerConn
          /\ Becomes(r, "UserSelectsTab")

\* the single-shot timer expires and emits timeout
TimerExpires ==
    /\ timerActive
    /\ LET r == emitTimeout([Start EXCEPT !.timerActive = FALSE], timerConn)
       IN /\ r.timerConn <= MaxTimerConn
          /\ Becomes(r, "TimerExpires")

\* the host finishes the lazy initialisation of the active workbench, which
\* gets its __Workbench__ attribute
HostLoadsWorkbench ==
    /\ active \notin loaded
    /\ loaded' = loaded \cup {active}
    /\ UNCHANGED <<active, tabs, tabWb, cur, wbNameMapping, isWbLoaded,
                   panels, builds, tabConn, wbConn, timerConn, timerActive,
                   toolbarsHidden, raised, nUserChanged, nActivate,
                   nWbActivated, nSwitched, lastHandler>>

Next ==
    \/ \E w \in Activatable : HostActivates(w)
    \/ \E index \in 1..Len(tabs) : UserSelectsTab(index)
    \/ TimerExpires
    \/ HostLoadsWorkbench

Spec == Init /\ [][Next]_vars

\* ------------------------------------------------------------------------
\* Properties
\* ------------------------------------------------------------------------
TabIndices == 1..Len(tabs)

\* the key under which buildPanels and onUserChangedWorkbench look a tab up
TabKey(t) == StripAmp(tabs[t])

\* workbench w has a tab titled with its MenuText
HasTab(w) == IndexOf(tabs, MenuText(w)) # 0

\* C1 as stated: after onWbActivated has run in response to any host
\* workbench activation, the current tab is the tab titled with the active
\* workbench's MenuText.
C1_AnyActivation ==
    lastHandler = "HostActivates" => TabText(Start, cur) = MenuText(active)

\* C1 amended: after onWbActivated has run in response to a host activation
\* of a workbench that has a tab titled with its MenuText, the current tab
\* is that tab.
C1_TabFollowsWorkbench ==
    (lastHandler = "HostActivates" /\ HasTab(active)) =>
        /\ cur = IndexOf(tabs, MenuText(active))
        /\ tabs[cur] = MenuText(active)

\* a host activation made updateCurrentTab change the tab
C1_Witness ==
    /\ lastHandler = "HostActivates"
    /\ nSwitched = 1
    /\ tabs[cur] = MenuText(active)

\* C2 as stated: when the user selects a tab, its title with '&' removed is
\* a key of wbNameMapping, maps to the workbench the tab was created for,
\* and that workbench is the host's active workbench afterwards.
C2_SelectedTabActivatesItsWorkbench ==
    lastHandler = "UserSelectsTab" =>
        /\ TabKey(cur) \in DOMAIN wbNameMapping
        /\ wbNameMapping[TabKey(cur)] = tabWb[cur]
        /\ active = tabWb[cur]

\* panels built from workbench w are in the tab created for w
BuiltFor(w) ==
    \E t \in TabIndices : tabWb[t] = w /\ w \in Range(builds[t])

\* C3 as stated: panels are never built while the active workbench is not
\* loaded; onWbActivated then leaves the single-shot retry timer running;
\* and once onWbActivated has run with the workbench loaded (no retry is
\* pending: nothing later would build them), the panels of the workbench's
\* tab are built.
C3_RetryUntilBuilt ==
    /\ \A t \in TabIndices : \A w \in Range(builds[t]) : w \in loaded
    /\ (nWbActivated > 0 /\ active \notin loaded) => timerActive
    /\ (nWbActivated > 0 /\ ~timerActive /\ active \in loaded /\ HasTab(active))
           => BuiltFor(active)

\* the panels of tab t are one per toolbar of the list of the workbench they
\* were built from that is neither ignored nor empty-named, none for the
\* others, and each is titled Title(toolbar)
PanelsAreToolbars(t, Title(_)) ==
    LET list == UnsortedToolbars(builds[t][1])
    IN /\ \A i \in 1..Len(panels[t]) :
            /\ panels[t][i].toolbar \in ToolbarNames
            /\ panels[t][i].title = Title(panels[t][i].toolbar)
       /\ \A n \in ToolbarNames :
            Cardinality({i \in 1..Len(panels[t]) : panels[t][i].toolbar = n})
              = IF n \in ignoredToolbars \/ n = <<>> THEN 0 ELSE Count(list, n)

SameName(toolbar) == toolbar

WithoutCustom(toolbar) ==
    IF EndsWith(toolbar, Custom) THEN ReplaceAll(toolbar, Custom) ELSE toolbar

\* C4 as stated: buildPanels creates exactly one panel, titled with the
\* toolbar name, for each toolbar remaining in the list that is neither
\* empty-named nor ignored, and none for the others.
C4_TitledWithToolbarName ==
    \A t \in TabIndices : builds[t] # <<>> => PanelsAreToolbars(t, SameName)

\* C4 amended: as C4, but the panel of a toolbar whose name ends with
\* "_custom" is titled with the name with every "_custom" removed.
C4_OnePanelPerToolbar ==
    \A t \in TabIndices : builds[t] # <<>> => PanelsAreToolbars(t, WithoutCustom)

\* panels were built from a list with an ignored, an empty-named and a
\* "_custom" toolbar
C4_Witness ==
    \E t \in TabIndices :
        /\ builds[t] = <<"PartWorkbench">>
        /\ TbClip \in Range(UnsortedToolbars("PartWorkbench"))
        /\ TbEmpty \in Range(UnsortedToolbars("PartWorkbench"))
        /\ \E i \in 1..Len(panels[t]) : panels[t][i].toolbar = TbNew

\* C5: buildPanels adds panels to a tab at most once; isWbLoaded of the tab
\* is true once its panels are built, is never reset, and a buildPanels call
\* for a loaded tab adds no panel.
C5_BuiltAtMostOnce ==
    /\ [](\A t \in TabIndices :
            /\ Len(builds[t]) <= 1
            /\ builds[t] # <<>> =>
                 (TabKey(t) \in DOMAIN isWbLoaded /\ isWbLoaded[TabKey(t)])
            /\ builds[t] = <<>> => panels[t] = <<>>)
    /\ [][/\ \A k \in DOMAIN isWbLoaded :
               isWbLoaded[k] => (k \in DOMAIN isWbLoaded' /\ isWbLoaded'[k])
          /\ \A t \in TabIndices :
               (TabKey(t) \in DOMAIN isWbLoaded /\ isWbLoaded[TabKey(t)])
                   => panels'[t] = panels[t]]_vars

\* a timer expiry called onWbActivated several times for a loaded workbench:
\* the first call built the panels, the later ones added nothing
C5_Witness ==
    /\ lastHandler = "TimerExpires"
    /\ nWbActivated >= 2
    /\ active \in loaded
    /\ Len(builds[cur]) = 1
    /\ panels[cur] # <<>>

\* C6 as stated: whenever buildPanels adds panels to a tab, the active
\* workbench is the workbench the tab was created for.
C6_BuiltFromOwnWorkbench ==
    \A t \in TabIndices :
        \A i \in 1..Len(builds[t]) : builds[t][i] = tabWb[t]

\* C7 as stated: an expiry of the retry timer runs onWbActivated exactly
\* once, and the connections of timer.timeout do not grow with the retries.
C7_OneRunPerExpiry ==
    lastHandler = "TimerExpires" => (nWbActivated = 1 /\ timerConn <= 1)

\* C8: updateCurrentTab changes the tab without onUserChangedWorkbench or
\* Gui.activateWorkbench being called, and after every handler each of the
\* two signals has exactly one connection to its handler.
C8_SilentTabChange ==
    /\ tabConn = 1
    /\ wbConn = 1
    /\ lastHandler \in {"HostActivates", "TimerExpires"} =>
           (nUserChanged = 0 /\ nActivate = 0)
    /\ lastHandler = "UserSelectsTab" => (nUserChanged = 1 /\ nActivate <= 1)

\* a timer expiry or host activation in which updateCurrentTab changed the tab
C8_Witness ==
    /\ lastHandler \in {"HostActivates", "TimerExpires"}
    /\ nSwitched >= 1
    /\ nUserChanged = 0
    /\ tabConn = 1

====
